---- MODULE Spec2Model ----
(***************************************************************************)
(* Model of the stract reporting proxy (src/api/views.py, routes.py):      *)
(* the API client, the three paginated fetchers, the two aggregators, the  *)
(* all-platform composition with its Cost-per-Click pass, and the report   *)
(* routes.                                                                 *)
(*                                                                         *)
(* JSON values are records so that values of different JSON kinds can be   *)
(* compared: a number is [k |-> "num", n, d] (the rational n/d, d >= 1,    *)
(* reduced), a string is [k |-> "str", s], an object is a record or a      *)
(* function from its keys.  A Python dict is a function; dict.get(key,     *)
(* default) is DictGet.                                                    *)
(***************************************************************************)
EXTENDS Integers, Sequences, FiniteSets, TLC

VARIABLES
    \* ---- one run of a paginated fetcher (views.py:44-125)
    fetcher,    \* which fetcher runs: "get_accounts", "get_fields", "get_insights"
    page,       \* the local `page`
    acc,        \* the local accumulator (`accounts` / `fields` / `insights`)
    resp,       \* the upstream's answer to the last request
    data,       \* what fetch_api gave for the last request
    reqs,       \* number of upstream requests issued so far
    served,     \* per request, the item array its answer carried
    fstatus,    \* "loop", "returned" (the function returned), "raised"
    result,     \* the fetcher's return value once fstatus = "returned"
    \* ---- one call of an aggregator (views.py:148-169, 200-225)
    aggregator, \* "aggregate_by_account" or "aggregate_by_platform"
    insights,   \* the argument `insights`: the rows to aggregate
    fields,     \* the argument `fields` / `all_fields`
    idx,        \* rows of `insights` the loop has consumed
    aggregated, \* the local dict `aggregated`, with its insertion order
    astatus,    \* "idle", "loop", "returned", "raised" (TypeError)
    aresult,    \* the aggregator's return value once astatus = "returned"
    \* ---- one HTTP request to a route (routes.py, views.py:127-146, 171-198)
    world,      \* what the upstream holds while the request is served
    route,      \* the route requested
    platform,   \* the <platform> path parameter
    rstatus,    \* where the handler is: "idle", "platforms", "fields", "cpc",
                \* "ready" (get_all_insights returned), "responded", "raised"
    platforms,  \* get_all_insights' local `platforms`
    pidx,       \* platforms the first loop has consumed
    insights_all, \* the rows fetched (`insights_all` / `insights`)
    field_set,  \* `all_fields` while it is a set
    all_fields, \* `all_fields` once it is a list (`fields` on a platform route)
    ridx,       \* rows the Cost-per-Click loop has consumed
    response    \* the HTTP response

fetchVars == <<fetcher, page, acc, resp, data, reqs, served, fstatus, result>>
aggVars == <<aggregator, insights, fields, idx, aggregated, astatus, aresult>>

reportVars == <<world, route, platform, rstatus, platforms, pidx, insights_all,
                field_set, all_fields, ridx, response>>

vars == <<fetchVars, aggVars, reportVars>>

(***************************************************************************)
(* Bounds                                                                  *)
(***************************************************************************)
MaxPage == 3        \* pages a run may request
MaxItems == 1       \* items one page may carry
MaxTotal == 2       \* largest pagination.current / pagination.total reported
MaxRows == 3        \* rows handed to an aggregator
MaxInsights == 1    \* insights the upstream holds per account

(***************************************************************************)
(* Python helpers                                                          *)
(***************************************************************************)
\* dict.get(key, default)
DictGet(d, key, default) == IF key \in DOMAIN d THEN d[key] ELSE default

\* the empty dict {}
EmptyDict == [x \in {} |-> x]

\* [f(x) for x in s]
RECURSIVE ListMap(_, _)
ListMap(s, key) ==
    IF s = <<>> THEN <<>> ELSE <<Head(s)[key]>> \o ListMap(Tail(s), key)

(***************************************************************************)
(* The upstream                                                            *)
(***************************************************************************)
Fetchers == {"get_accounts", "get_fields", "get_insights"}

\* the array field each fetcher reads (views.py:58, 82, 117)
ItemsKey(f) ==
    CASE f = "get_accounts" -> "accounts"
      [] f = "get_fields"   -> "fields"
      [] f = "get_insights" -> "insights"

\* the j-th item of page p of a resource: an account, a field or an insight
Item(f, p, j) ==
    CASE f = "get_accounts" ->
           [k |-> "account", id |-> <<p, j>>, name |-> <<"name", p, j>>,
            token |-> <<"token", p, j>>]
      [] f = "get_fields" ->
           [k |-> "field", value |-> [k |-> "str", s |-> <<"value", p, j>>],
            label |-> [k |-> "str", s |-> <<"label", p, j>>]]
      [] f = "get_insights" ->
           [k |-> "insight", ad |-> <<p, j>>]

ItemList(f, p, n) == [j \in 1..n |-> Item(f, p, j)]

\* the pagination objects an answer may carry: any of the two keys may miss
Paginations ==
    UNION {[D -> 1..MaxTotal] : D \in SUBSET {"current", "total"}}

\* the JSON objects the upstream may answer page p with: the item array is
\* absent, empty or holds up to MaxItems items; pagination is absent or not
Bodies(f, p) ==
    LET itemParts == {EmptyDict} \cup
                     {(ItemsKey(f) :> ItemList(f, p, n)) : n \in 0..MaxItems}
        pagParts  == {EmptyDict} \cup
                     {("pagination" :> pg) : pg \in Paginations}
    IN  {i @@ g : i \in itemParts, g \in pagParts}

\* one answer to requests.get: the transport fails, or a status with a body
\* that decodes as JSON or does not
BadJson == [k |-> "undecodable"]
WellFormed(f, p) == (ItemsKey(f) :> ItemList(f, p, 1)) @@
                    ("pagination" :> [current |-> 1, total |-> 1])
Responses(f, p) ==
    {[conn |-> "fail"]}
    \cup {[conn |-> "ok", status |-> 500, json |-> WellFormed(f, p)]}
    \cup {[conn |-> "ok", status |-> 200, json |-> BadJson]}
    \cup {[conn |-> "ok", status |-> 200, json |-> b] : b \in Bodies(f, p)}

(***************************************************************************)
(* fetch_api (views.py:6-31)                                               *)
(***************************************************************************)
Raised == [ret |-> "raise"]
None   == [ret |-> "none"]
Json(b) == [ret |-> "json", body |-> b]

\* requests.get is outside the try: a transport failure leaves fetch_api as
\* an exception.  Only a 200 is decoded; a failed decode is caught.
fetch_api(r) ==
    IF r.conn = "fail" THEN Raised
    ELSE IF r.status = 200
         THEN IF r.json = BadJson THEN None ELSE Json(r.json)
         ELSE None

\* Python's `not data`: None or the empty dict
NotData(d) == d = None \/ (d.ret = "json" /\ DOMAIN d.body = {})

(***************************************************************************)
(* The pagination loop (views.py:53-66, 77-90, 105-125)                    *)
(***************************************************************************)
new_items(f, d) == DictGet(d.body, ItemsKey(f), <<>>)

\* a loop that trusts its own page counter instead of the reported current
LastPage_OwnCounter(d) ==
    LET pagination == DictGet(d.body, "pagination", EmptyDict)
    IN  page >= DictGet(pagination, "total", 1)

\* a loop that goes on when the answer carries no pagination object
LastPage_NoDefault(d) ==
    /\ "pagination" \in DOMAIN d.body
    /\ DictGet(d.body["pagination"], "current", 1)
           >= DictGet(d.body["pagination"], "total", 1)

\* `pagination.get("current", 1) >= pagination.get("total", 1)`
LastPage(d) ==
    LET pagination == DictGet(d.body, "pagination", EmptyDict)
    IN  DictGet(pagination, "current", 1) >= DictGet(pagination, "total", 1)

\* the statement after the loop: get_fields projects to the `value`s
ReturnValue(f, items) ==
    IF f = "get_fields" THEN ListMap(items, "value") ELSE items

\* the item array a raw answer carries (none unless it is a decodable 200)
RawItems(f, r) ==
    IF r.conn = "ok" /\ r.status = 200 /\ r.json # BadJson
       /\ ItemsKey(f) \in DOMAIN r.json
    THEN r.json[ItemsKey(f)] ELSE <<>>

\* One iteration of `while True`, from the request (answered by r) to the
\* break or to page += 1, on the locals page p and accumulator items.
LoopBody(f, p, items, r) ==
    LET d == fetch_api(r) IN
    IF d = Raised
    THEN [status |-> "raised", page |-> p, acc |-> items, result |-> <<>>]
    ELSE IF NotData(d) \/ new_items(f, d) = <<>>
    THEN [status |-> "returned", page |-> p, acc |-> items,
          result |-> ReturnValue(f, items)]
    ELSE LET extended == items \o new_items(f, d) IN
         IF LastPage(d)
         THEN [status |-> "returned", page |-> p, acc |-> extended,
               result |-> ReturnValue(f, extended)]
         ELSE [status |-> "loop", page |-> p + 1, acc |-> extended,
               result |-> <<>>]

FetchPage(r) ==
    LET after == LoopBody(fetcher, page, acc, r) IN
    /\ resp' = r
    /\ data' = fetch_api(r)
    /\ reqs' = reqs + 1
    /\ served' = Append(served, RawItems(fetcher, r))
    /\ fetcher' = fetcher
    /\ fstatus' = after.status
    /\ page' = after.page
    /\ acc' = after.acc
    /\ result' = IF after.status = "returned" THEN after.result ELSE result

FetchStep ==
    /\ fstatus = "loop"
    /\ page <= MaxPage
    /\ \E r \in Responses(fetcher, page) : FetchPage(r)
    /\ UNCHANGED <<aggVars, reportVars>>

(***************************************************************************)
(* JSON scalars                                                            *)
(***************************************************************************)
RECURSIVE Gcd(_, _)
Gcd(a, b) == IF b = 0 THEN a ELSE Gcd(b, a % b)

Abs(a) == IF a < 0 THEN -a ELSE a

\* the number n/d (d > 0), reduced
Ratio(n, d) ==
    LET g == Gcd(Abs(n), d)
    IN  [k |-> "num", n |-> n \div g, d |-> d \div g]

Num(n) == Ratio(n, 1)
Str(s) == [k |-> "str", s |-> s]
NoneValue == [k |-> "none"]
TypeError == [k |-> "TypeError"]

\* isinstance(value, (int, float))
IsNumber(value) == value.k = "num"

\* `a += b` where b is a number: numbers add, a str refuses an int
PyIAdd(a, b) ==
    IF a.k = "num" /\ b.k = "num"
    THEN Ratio(a.n * b.d + b.n * a.d, a.d * b.d)
    ELSE TypeError

\* d[key] = value
DictPut(d, key, value) ==
    [x \in DOMAIN d \cup {key} |-> IF x = key THEN value ELSE d[x]]

(***************************************************************************)
(* aggregate_by_account (views.py:148-169) and aggregate_by_platform       *)
(* (views.py:200-225): the same loop, keyed by Account or by Platform      *)
(***************************************************************************)
Aggregators == {"aggregate_by_account", "aggregate_by_platform"}

\* the group key read from a row (views.py:158, 210)
GroupKey(a, row) ==
    IF a = "aggregate_by_account" THEN DictGet(row, "Account", NoneValue)
    ELSE DictGet(row, "Platform", NoneValue)

\* `row.get(field)` by account, `row.get(field, "")` by platform
RowValue(a, row, field) ==
    IF a = "aggregate_by_account" THEN DictGet(row, field, NoneValue)
    ELSE DictGet(row, field, Str(""))

\* an aggregate schema without the Account column
Skipped_AccountToo(a, field) ==
    a = "aggregate_by_platform" /\ field \in {"Platform", "Account"}

\* by platform the field "Platform" is passed over (views.py:214, 220)
Skipped(a, field) == a = "aggregate_by_platform" /\ field = "Platform"

\* the new group's row before its fields are seeded (views.py:160, 212)
BaseRow(a, row) ==
    IF a = "aggregate_by_account"
    THEN [Platform |-> DictGet(row, "Platform", NoneValue),
          Account |-> DictGet(row, "Account", NoneValue)]
    ELSE [Platform |-> DictGet(row, "Platform", NoneValue)]

\* a seed that keeps the first row's number, which the sum then adds again
SeedValue_KeepFirst(value) == IF IsNumber(value) THEN value ELSE Str("")

\* `0 if isinstance(value, (int, float)) else ""`
SeedValue(value) == IF IsNumber(value) THEN Num(0) ELSE Str("")

\* the seeding loop over the fields (views.py:161-163, 213-217)
RECURSIVE SeedFields(_, _, _, _)
SeedFields(a, agg_row, row, fs) ==
    IF fs = <<>> THEN agg_row
    ELSE IF Skipped(a, Head(fs)) THEN SeedFields(a, agg_row, row, Tail(fs))
    ELSE SeedFields(a,
                    DictPut(agg_row, Head(fs),
                            SeedValue(RowValue(a, row, Head(fs)))),
                    row, Tail(fs))

\* the adding loop over the fields (views.py:165-168, 219-224): the row's
\* value decides whether to add, whatever the accumulated value is
RECURSIVE AddFields(_, _, _, _)
AddFields(a, agg_row, row, fs) ==
    IF fs = <<>> THEN agg_row
    ELSE IF Skipped(a, Head(fs)) \/ ~IsNumber(RowValue(a, row, Head(fs)))
    THEN AddFields(a, agg_row, row, Tail(fs))
    ELSE LET sum == PyIAdd(agg_row[Head(fs)], RowValue(a, row, Head(fs)))
         IN  IF sum = TypeError THEN TypeError
             ELSE AddFields(a, DictPut(agg_row, Head(fs), sum), row, Tail(fs))

\* One iteration of `for row in insights`: the dict after it, or TypeError.
AggregateRow(a, agg, row, fs) ==
    LET key    == GroupKey(a, row)
        isNew  == \A i \in 1..Len(agg.keys) : agg.keys[i] # key
        seeded == IF isNew
                  THEN [keys |-> Append(agg.keys, key),
                        rows |-> Append(agg.rows,
                                        SeedFields(a, BaseRow(a, row), row, fs))]
                  ELSE agg
        at     == CHOOSE i \in 1..Len(seeded.keys) : seeded.keys[i] = key
        added  == AddFields(a, seeded.rows[at], row, fs)
    IN  IF added = TypeError THEN TypeError
        ELSE [seeded EXCEPT !.rows[at] = added]

\* the whole call on the rows from position i + 1 on: [status, value]
RECURSIVE Aggregate(_, _, _, _, _)
Aggregate(a, agg, rows, i, fs) ==
    IF i = Len(rows) THEN [status |-> "returned", value |-> agg.rows]
    ELSE LET next == AggregateRow(a, agg, rows[i + 1], fs)
         IN  IF next = TypeError THEN [status |-> "raised", value |-> <<>>]
             ELSE Aggregate(a, next, rows, i + 1, fs)

EmptyAggregated == [keys |-> <<>>, rows |-> <<>>]

\* the loop body on the next row
AggStep ==
    /\ astatus = "loop"
    /\ idx < Len(insights)
    /\ LET next == AggregateRow(aggregator, aggregated, insights[idx + 1], fields)
       IN  IF next = TypeError
           THEN /\ astatus' = "raised"
                /\ UNCHANGED <<aggregated, idx>>
           ELSE /\ aggregated' = next
                /\ idx' = idx + 1
                /\ astatus' = astatus
    /\ UNCHANGED <<aggregator, insights, fields, aresult>>
    /\ UNCHANGED <<fetchVars, reportVars>>

\* `return list(aggregated.values())`
AggReturn ==
    /\ astatus = "loop"
    /\ idx = Len(insights)
    /\ aresult' = aggregated.rows
    /\ astatus' = "returned"
    /\ UNCHANGED <<aggregator, insights, fields, idx, aggregated>>
    /\ UNCHANGED <<fetchVars, reportVars>>

\* the rows an aggregator may be handed: the group key takes two values; the
\* field spend is a number, a text or absent; Campaign is a text
SpendParts ==
    {EmptyDict, "spend" :> Num(10), "spend" :> Num(20), "spend" :> Str("x")}
CampaignParts == {"Campaign" :> Str("A"), "Campaign" :> Str("B")}
KeyParts(a) ==
    IF a = "aggregate_by_account"
    THEN {("Platform" :> Str("meta_ads")) @@ ("Account" :> Str(n)) :
              n \in {"Conta 1", "Conta 2"}}
    ELSE {("Platform" :> Str(p)) @@ ("Account" :> Str("Conta 1")) :
              p \in {"meta_ads", "ga4"}}
InputRows(a) ==
    {kp @@ sp @@ cp : kp \in KeyParts(a), sp \in SpendParts, cp \in CampaignParts}

\* the field list each route hands over (routes.py:102, 152)
InputFields(a) ==
    IF a = "aggregate_by_account" THEN <<"spend", "Campaign">>
    ELSE <<"Platform", "Account", "spend", "Campaign">>

SeqsUpTo(S, n) == UNION {[1..m -> S] : m \in 0..n}

(***************************************************************************)
(* The fetchers run to completion against a given upstream                 *)
(***************************************************************************)
KnownPlatforms == {"ga4", "meta_ads"}

\* the accounts of a platform: one on ga4, two on meta_ads
AccountsOf(pf) ==
    IF pf = "ga4"
    THEN <<[id |-> Str("1"), name |-> Str("Conta GA4"), token |-> Str("T1")]>>
    ELSE <<[id |-> Str("2"), name |-> Str("Conta Meta A"), token |-> Str("T2")],
           [id |-> Str("3"), name |-> Str("Conta Meta B"), token |-> Str("T3")]>>

FieldsOf(pf) ==
    IF pf = "ga4"
    THEN <<[value |-> "spend", label |-> "Spend"],
           [value |-> "clicks", label |-> "Clicks"]>>
    ELSE <<[value |-> "spend", label |-> "Spend"],
           [value |-> "Campaign", label |-> "Campaign"]>>

OnePage == "pagination" :> [current |-> 1, total |-> 1]

\* the insights world w holds for the account with this id
InsightsHeld(w, pf, account) ==
    LET n == CHOOSE n \in 1..Len(AccountsOf(pf)) : AccountsOf(pf)[n].id = account
    IN  w.rows[pf][n]

\* the upstream's answer, in world w, to page p of an endpoint for platform
\* pf (and account): everything it holds is on page 1; an unknown platform
\* has nothing
Upstream(w, endpoint, pf, account, p) ==
    IF endpoint \in w.down THEN [conn |-> "fail"]
    ELSE LET held ==
               CASE endpoint = "/platforms" ->
                      [i \in 1..Len(w.platforms) |->
                          [value |-> w.platforms[i], label |-> w.platforms[i]]]
                 [] endpoint = "/accounts" ->
                      IF pf \in KnownPlatforms THEN AccountsOf(pf) ELSE <<>>
                 [] endpoint = "/fields" ->
                      IF pf \in KnownPlatforms THEN FieldsOf(pf) ELSE <<>>
                 [] endpoint = "/insights" ->
                      IF pf \in KnownPlatforms
                      THEN InsightsHeld(w, pf, account) ELSE <<>>
             key == SubSeq(endpoint, 2, Len(endpoint))
         IN  [conn |-> "ok", status |-> 200,
              json |-> IF endpoint = "/platforms" THEN "platforms" :> held
                       ELSE (key :> (IF p = 1 THEN held ELSE <<>>)) @@ OnePage]

\* the endpoint each fetcher calls (views.py:55, 79, 114)
Endpoint(f) ==
    CASE f = "get_accounts" -> "/accounts"
      [] f = "get_fields"   -> "/fields"
      [] f = "get_insights" -> "/insights"

\* a fetcher's whole loop from page p on: [status, result]
RECURSIVE RunFetcher(_, _, _, _, _, _)
RunFetcher(f, w, pf, account, p, items) ==
    LET after == LoopBody(f, p, items, Upstream(w, Endpoint(f), pf, account, p))
    IN  IF after.status = "loop"
        THEN RunFetcher(f, w, pf, account, after.page, after.acc)
        ELSE after

\* get_platforms (views.py:33-42): [status, result]
get_platforms(w) ==
    LET d == fetch_api(Upstream(w, "/platforms", "", NoneValue, 1))
    IN  IF d = Raised THEN [status |-> "raised", result |-> <<>>]
        ELSE IF ~NotData(d) /\ "platforms" \in DOMAIN d.body
        THEN [status |-> "returned", result |-> d.body["platforms"]]
        ELSE [status |-> "returned", result |-> <<>>]

\* the stamping of a fetched row (views.py:143-144)
Stamp(insight, account_name, pf) ==
    DictPut(DictPut(insight, "Account", account_name), "Platform", Str(pf))

\* the loop over the accounts (views.py:137-145): [status, rows]
RECURSIVE InsightsOfAccounts(_, _, _, _)
InsightsOfAccounts(w, pf, accounts, done) ==
    IF accounts = <<>> THEN [status |-> "returned", rows |-> done]
    ELSE LET account == Head(accounts)
             got == RunFetcher("get_insights", w, pf,
                               DictGet(account, "id", NoneValue), 1, <<>>)
         IN  IF got.status = "raised" THEN [status |-> "raised", rows |-> <<>>]
             ELSE InsightsOfAccounts(
                      w, pf, Tail(accounts),
                      done \o [i \in 1..Len(got.result) |->
                                  Stamp(got.result[i],
                                        DictGet(account, "name", NoneValue), pf)])

\* get_insights_for_platform (views.py:127-146): [status, rows, fields]
get_insights_for_platform(w, pf) ==
    LET accounts == RunFetcher("get_accounts", w, pf, NoneValue, 1, <<>>)
        flds     == RunFetcher("get_fields", w, pf, NoneValue, 1, <<>>)
        failed   == [status |-> "raised", rows |-> <<>>, fields |-> <<>>]
    IN  IF accounts.status = "raised" \/ flds.status = "raised" THEN failed
        ELSE LET ins == InsightsOfAccounts(w, pf, accounts.result, <<>>)
             IN  IF ins.status = "raised" THEN failed
                 ELSE [status |-> "returned", rows |-> ins.rows,
                       fields |-> flds.result]

(***************************************************************************)
(* Cost per Click (views.py:188-197)                                       *)
(***************************************************************************)
\* Python truthiness of a JSON scalar
Truthy(v) ==
    ~(v.k = "none" \/ (v.k = "num" /\ v.n = 0) \/ (v.k = "str" /\ v.s = ""))

\* `a or b`
PyOr(a, b) == IF Truthy(a) THEN a ELSE b

\* float(v): a number converts, a text that spells a number parses, any
\* other text raises ValueError
ValueError == [k |-> "ValueError"]
Spelled == [t \in {"100", "50"} |-> IF t = "100" THEN 100 ELSE 50]
PyFloat(v) ==
    IF v.k = "num" THEN v
    ELSE IF v.k = "str" /\ v.s \in DOMAIN Spelled THEN Num(Spelled[v.s])
    ELSE ValueError

\* a / b for numbers, b # 0
Quotient(a, b) ==
    IF a.d * b.n > 0 THEN Ratio(a.n * b.d, a.d * b.n)
    ELSE Ratio(-(a.n * b.d), -(a.d * b.n))

\* a derivation that reads only the lower-case keys
CostPerClick_LowerCaseOnly(row) ==
    LET spend  == PyOr(DictGet(row, "spend", NoneValue), Num(0))
        clicks == PyOr(DictGet(row, "clicks", NoneValue), Num(0))
    IN  IF Truthy(clicks) /\ PyFloat(spend) # ValueError
           /\ PyFloat(clicks) # ValueError /\ PyFloat(clicks).n # 0
        THEN Quotient(PyFloat(spend), PyFloat(clicks))
        ELSE Num(0)

\* the value stored under "Cost per Click" (views.py:190-195): any failure
\* of float() or of the division is caught and gives 0
CostPerClick(row) ==
    LET spend  == PyOr(PyOr(DictGet(row, "spend", NoneValue),
                            DictGet(row, "Spend", NoneValue)), Num(0))
        clicks == PyOr(PyOr(DictGet(row, "clicks", NoneValue),
                            DictGet(row, "Clicks", NoneValue)), Num(0))
    IN  IF Truthy(clicks)
        THEN IF PyFloat(spend) = ValueError \/ PyFloat(clicks) = ValueError
             THEN Num(0)
             ELSE IF PyFloat(clicks).n = 0 THEN Num(0)
             ELSE Quotient(PyFloat(spend), PyFloat(clicks))
        ELSE Num(0)

\* `x in list`
InList(x, l) == \E i \in 1..Len(l) : l[i] = x

(***************************************************************************)
(* generate_csv (views.py:227-241) and the routes (routes.py)              *)
(***************************************************************************)
\* csv.DictWriter with extrasaction='ignore': the header, then per row the
\* values of the header's fields, a missing (or None) one empty
generate_csv(rows, fieldnames) ==
    [header |-> fieldnames,
     lines |-> [i \in 1..Len(rows) |->
                  [j \in 1..Len(fieldnames) |->
                      LET v == DictGet(rows[i], fieldnames[j], Str(""))
                      IN  IF v = NoneValue THEN Str("") ELSE v]]]

NoCsv == [header |-> <<>>, lines |-> <<>>]

\* Response(csv_data, mimetype="text/csv")
CsvResponse(rows, fieldnames) ==
    [code |-> 200, mimetype |-> "text/csv", body |-> <<>>,
     csv |-> generate_csv(rows, fieldnames), rows |-> rows]

\* `return <text>, 404`
NotFound(text) ==
    [code |-> 404, mimetype |-> "text/html", body |-> text, csv |-> NoCsv,
     rows |-> <<>>]

\* an uncaught exception: the framework answers 500
ServerError ==
    [code |-> 500, mimetype |-> "text/html", body |-> <<>>, csv |-> NoCsv,
     rows |-> <<>>]

NoResponse ==
    [code |-> 0, mimetype |-> "", body |-> <<>>, csv |-> NoCsv, rows |-> <<>>]

\* `not insights`
NoRows(rows) == rows = <<>>

\* f"Plataforma {platform} não encontrada ou sem dados."
PlatformNotFound(pf) == <<"Plataforma ", pf, " não encontrada ou sem dados.">>

Routes == {"/", "/<platform>", "/<platform>/resumo", "/geral", "/geral/resumo"}
PlatformArgs == KnownPlatforms \cup {"tiktok_insights"}

\* index (routes.py:21-36)
Index ==
    /\ rstatus = "idle"
    /\ route' = "/"
    /\ response' = CsvResponse(
           <<[Nome |-> Str("Luís Eduardp"),
              Email |-> Str("contato@luiseduardo.dev.br"),
              LinkedIn |-> Str("https://www.linkedin.com/in/edurs2602/")]>>,
           <<"Nome", "Email", "LinkedIn">>)
    /\ rstatus' = "responded"
    /\ UNCHANGED <<world, platform, platforms, pidx, insights_all, field_set,
                   all_fields, ridx>>
    /\ UNCHANGED <<fetchVars, aggVars>>

\* platform_report (routes.py:60-70)
PlatformReport ==
    /\ rstatus = "idle"
    /\ \E pf \in PlatformArgs :
          LET got == get_insights_for_platform(world, pf) IN
          /\ route' = "/<platform>"
          /\ platform' = pf
          /\ IF got.status = "raised"
             THEN /\ rstatus' = "raised"
                  /\ response' = ServerError
                  /\ UNCHANGED <<insights_all, all_fields>>
             ELSE /\ rstatus' = "responded"
                  /\ insights_all' = got.rows
                  /\ all_fields' = got.fields
                  /\ response' =
                        IF NoRows(got.rows) THEN NotFound(PlatformNotFound(pf))
                        ELSE CsvResponse(got.rows,
                                         <<"Platform", "Account">> \o got.fields)
    /\ UNCHANGED <<world, platforms, pidx, field_set, ridx>>
    /\ UNCHANGED <<fetchVars, aggVars>>

\* the call of an aggregator: its locals before the loop (views.py:156, 208)
StartAggregator(a, rows, fs) ==
    /\ aggregator' = a
    /\ insights' = rows
    /\ fields' = fs
    /\ idx' = 0
    /\ aggregated' = EmptyAggregated
    /\ astatus' = "loop"
    /\ aresult' = <<>>

\* platform_summary up to the call of aggregate_by_account (routes.py:94-102)
PlatformSummary ==
    /\ rstatus = "idle"
    /\ \E pf \in PlatformArgs :
          LET got == get_insights_for_platform(world, pf) IN
          /\ route' = "/<platform>/resumo"
          /\ platform' = pf
          /\ IF got.status = "raised"
             THEN /\ rstatus' = "raised"
                  /\ response' = ServerError
                  /\ UNCHANGED <<insights_all, all_fields>>
                  /\ UNCHANGED aggVars
             ELSE /\ insights_all' = got.rows
                  /\ all_fields' = got.fields
                  /\ IF NoRows(got.rows)
                     THEN /\ rstatus' = "responded"
                          /\ response' = NotFound(PlatformNotFound(pf))
                          /\ UNCHANGED aggVars
                     ELSE /\ rstatus' = "aggregating"
                          /\ response' = response
                          /\ StartAggregator("aggregate_by_account", got.rows,
                                             got.fields)
    /\ UNCHANGED <<world, platforms, pidx, field_set, ridx>>
    /\ UNCHANGED fetchVars

\* geral_report / geral_summary enter get_all_insights (views.py:178-180)
GeralStart ==
    /\ rstatus = "idle"
    /\ \E rt \in {"/geral", "/geral/resumo"} : route' = rt
    /\ LET got == get_platforms(world) IN
       IF got.status = "raised"
       THEN /\ rstatus' = "raised"
            /\ response' = ServerError
            /\ platforms' = platforms
       ELSE /\ rstatus' = "platforms"
            /\ platforms' = got.result
            /\ response' = response
    /\ UNCHANGED <<world, platform, pidx, insights_all, field_set, all_fields,
                   ridx>>
    /\ UNCHANGED <<fetchVars, aggVars>>

\* one iteration of `for platform_obj in platforms` (views.py:181-185)
AllPlatform ==
    /\ rstatus = "platforms"
    /\ pidx < Len(platforms)
    /\ LET platform_value == DictGet(platforms[pidx + 1], "value", NoneValue)
           got == get_insights_for_platform(world, platform_value)
       IN  IF got.status = "raised"
           THEN /\ rstatus' = "raised"
                /\ response' = ServerError
                /\ UNCHANGED <<pidx, insights_all, field_set>>
           ELSE /\ insights_all' = insights_all \o got.rows
                /\ field_set' = field_set \cup
                                {got.fields[i] : i \in 1..Len(got.fields)}
                /\ pidx' = pidx + 1
                /\ UNCHANGED <<rstatus, response>>
    /\ UNCHANGED <<world, route, platform, platforms, all_fields, ridx>>
    /\ UNCHANGED <<fetchVars, aggVars>>

\* list(all_fields) and the two pinned columns (views.py:186-187): a set of
\* str is listed in an order that differs from process to process
AllFieldList ==
    /\ rstatus = "platforms"
    /\ pidx = Len(platforms)
    /\ \E order \in [1..Cardinality(field_set) -> field_set] :
          /\ \A i, j \in DOMAIN order : order[i] = order[j] => i = j
          /\ all_fields' = <<"Platform", "Account">> \o order
    /\ rstatus' = "cpc"
    /\ UNCHANGED <<world, route, platform, platforms, pidx, insights_all,
                   field_set, ridx, response>>
    /\ UNCHANGED <<fetchVars, aggVars>>

\* one iteration of `for row in insights_all` (views.py:188-197)
AllCpcRow ==
    /\ rstatus = "cpc"
    /\ ridx < Len(insights_all)
    /\ LET row == insights_all[ridx + 1] IN
       IF DictGet(row, "Platform", NoneValue) = Str("ga4")
       THEN /\ insights_all' =
                  [insights_all EXCEPT
                      ![ridx + 1] = DictPut(row, "Cost per Click",
                                            CostPerClick(row))]
            /\ all_fields' = IF InList("Cost per Click", all_fields)
                             THEN all_fields
                             ELSE Append(all_fields, "Cost per Click")
       ELSE UNCHANGED <<insights_all, all_fields>>
    /\ ridx' = ridx + 1
    /\ UNCHANGED <<world, route, platform, rstatus, platforms, pidx, field_set,
                   response>>
    /\ UNCHANGED <<fetchVars, aggVars>>

\* `return insights_all, all_fields` (views.py:198)
AllReturn ==
    /\ rstatus = "cpc"
    /\ ridx = Len(insights_all)
    /\ rstatus' = "ready"
    /\ UNCHANGED <<world, route, platform, platforms, pidx, insights_all,
                   field_set, all_fields, ridx, response>>
    /\ UNCHANGED <<fetchVars, aggVars>>

\* the rest of geral_report (routes.py:126-129), or geral_summary up to the
\* call of aggregate_by_platform (routes.py:150-152)
GeralRespond ==
    /\ rstatus = "ready"
    /\ IF NoRows(insights_all)
       THEN /\ rstatus' = "responded"
            /\ response' = NotFound(<<"Nenhum dado encontrado.">>)
            /\ UNCHANGED aggVars
       ELSE IF route = "/geral"
       THEN /\ rstatus' = "responded"
            /\ response' = CsvResponse(insights_all, all_fields)
            /\ UNCHANGED aggVars
       ELSE /\ rstatus' = "aggregating"
            /\ response' = response
            /\ StartAggregator("aggregate_by_platform", insights_all, all_fields)
    /\ UNCHANGED <<world, route, platform, platforms, pidx, insights_all,
                   field_set, all_fields, ridx>>
    /\ UNCHANGED fetchVars

\* the rest of platform_summary (routes.py:103-105) and of geral_summary
\* (routes.py:153-154), once the aggregator has returned or raised
SummaryRespond ==
    /\ rstatus = "aggregating"
    /\ astatus \in {"returned", "raised"}
    /\ IF astatus = "raised"
       THEN /\ rstatus' = "raised"
            /\ response' = ServerError
       ELSE /\ rstatus' = "responded"
            /\ response' =
                  CsvResponse(aresult,
                              IF route = "/<platform>/resumo"
                              THEN <<"Platform", "Account">> \o all_fields
                              ELSE all_fields)
    /\ UNCHANGED <<world, route, platform, platforms, pidx, insights_all,
                   field_set, all_fields, ridx>>
    /\ UNCHANGED <<fetchVars, aggVars>>

\* what the upstream may hold: the insights of each known platform's accounts
\* and the platforms it lists; `down` are the endpoints whose requests fail
\* in transport (none, all of them, or /insights alone)
Ga4Insights ==
    {sp @@ cp :
        sp \in {EmptyDict, "spend" :> Num(100), "Spend" :> Num(100),
                "spend" :> Str("abc")},
        cp \in {EmptyDict, "clicks" :> Num(50), "clicks" :> Num(0),
                "Clicks" :> Num(50)}}
MetaInsightsA ==
    {("spend" :> Num(100)) @@ ("Campaign" :> Str("A")),
     ("Campaign" :> Str("B"))}
MetaInsightsB == {("spend" :> Num(100)) @@ ("Campaign" :> Str("A"))}
Listings == {<<>>, <<"ga4">>, <<"meta_ads">>, <<"ga4", "meta_ads">>}
Endpoints == {"/platforms", "/accounts", "/fields", "/insights"}
NoInsights == [ga4 |-> <<<<>>>>, meta_ads |-> <<<<>>, <<>>>>]
Worlds ==
    {[down |-> Endpoints, platforms |-> <<>>,
      rows |-> NoInsights]}
    \cup {[down |-> {"/insights"}, platforms |-> l,
           rows |-> NoInsights] : l \in Listings}
    \cup {[down |-> {}, platforms |-> l,
           rows |-> [ga4 |-> <<g>>, meta_ads |-> <<ma, mb>>]] :
            l \in Listings, g \in SeqsUpTo(Ga4Insights, MaxInsights),
            ma \in SeqsUpTo(MetaInsightsA, MaxInsights),
            mb \in SeqsUpTo(MetaInsightsB, MaxInsights)}

FetchIdle ==
    /\ fetcher = "none" /\ page = 1 /\ acc = <<>> /\ resp = [conn |-> "none"]
    /\ data = None /\ reqs = 0 /\ served = <<>> /\ fstatus = "idle"
    /\ result = <<>>

AggIdle ==
    /\ aggregator = "none" /\ insights = <<>> /\ fields = <<>> /\ idx = 0
    /\ aggregated = EmptyAggregated /\ astatus = "idle"
    /\ aresult = <<>>

ReportIdle ==
    /\ world = [down |-> {}, platforms |-> <<>>,
                rows |-> NoInsights]
    /\ route = "" /\ platform = "" /\ rstatus = "off" /\ platforms = <<>>
    /\ pidx = 0 /\ insights_all = <<>> /\ field_set = {} /\ all_fields = <<>>
    /\ ridx = 0 /\ response = NoResponse

InitFetch ==
    /\ AggIdle /\ ReportIdle
    /\ fetcher \in Fetchers
    /\ page = 1
    /\ acc = <<>>
    /\ resp = [conn |-> "none"]
    /\ data = None
    /\ reqs = 0
    /\ served = <<>>
    /\ fstatus = "loop"
    /\ result = <<>>

NextFetch == FetchStep

SpecFetch == InitFetch /\ [][NextFetch]_vars

InitAgg ==
    /\ FetchIdle /\ ReportIdle
    /\ aggregator \in Aggregators
    /\ insights \in SeqsUpTo(InputRows(aggregator), MaxRows)
    /\ fields = InputFields(aggregator)
    /\ idx = 0
    /\ aggregated = EmptyAggregated
    /\ astatus = "loop"
    /\ aresult = <<>>

NextAgg == AggStep \/ AggReturn

SpecAgg == InitAgg /\ [][NextAgg]_vars

InitReport ==
    /\ FetchIdle /\ AggIdle
    /\ world \in Worlds
    /\ route = "" /\ platform = "" /\ rstatus = "idle" /\ platforms = <<>>
    /\ pidx = 0 /\ insights_all = <<>> /\ field_set = {} /\ all_fields = <<>>
    /\ ridx = 0 /\ response = NoResponse

NextReport ==
    \/ Index
    \/ PlatformReport
    \/ PlatformSummary
    \/ GeralStart
    \/ AllPlatform
    \/ AllFieldList
    \/ AllCpcRow
    \/ AllReturn
    \/ GeralRespond
    \/ AggStep
    \/ AggReturn
    \/ SummaryRespond

SpecReport == InitReport /\ [][NextReport]_vars

(***************************************************************************)
(* What the upstream said, read from its answer `resp` itself              *)
(***************************************************************************)
\* the answer to the last request is a 200 whose body decoded
RespOk == resp.conn = "ok" /\ resp.status = 200 /\ resp.json # BadJson

\* any of the three failures: transport, non-200 status, undecodable body
RespFailed == resp.conn = "fail" \/ (resp.conn = "ok" /\ ~RespOk)

RespItems == IF resp.conn = "none" THEN <<>> ELSE RawItems(fetcher, resp)

RespHasPagination == RespOk /\ "pagination" \in DOMAIN resp.json

RespHasTotal ==
    RespHasPagination /\ "total" \in DOMAIN resp.json["pagination"]

RespCurrent ==
    IF RespHasPagination /\ "current" \in DOMAIN resp.json["pagination"]
    THEN resp.json["pagination"]["current"] ELSE 1

RespTotal == IF RespHasTotal THEN resp.json["pagination"]["total"] ELSE 1

\* no request for a further page will be issued
Stopped == fstatus # "loop"

\* the `value` of each item
ValuesOf(items) == [i \in 1..Len(items) |-> items[i].value]

\* the items of the answers to requests 1..n, in page order
RECURSIVE ServedUpTo(_)
ServedUpTo(n) == IF n = 0 THEN <<>> ELSE ServedUpTo(n - 1) \o served[n]

(***************************************************************************)
(* Claims about the fetchers                                               *)
(***************************************************************************)
\* C1 (as stated): after the request for page N the loop stops iff the
\* pagination.total reported in the answer to page N is <= N.
C1_StopsIffTotalReached ==
    (reqs >= 1 /\ RespHasTotal) => (Stopped <=> RespTotal <= reqs)

\* C1 (amended): after the request for page N the loop stops iff that call
\* failed (raised or gave no data), or its item array was absent or empty,
\* or the reported current (default 1) >= the reported total (default 1);
\* otherwise the next request is for page N + 1.
C1_StopsIffNoDataOrCurrentReachedTotal ==
    reqs >= 1 =>
        /\ Stopped <=> (RespFailed \/ RespItems = <<>> \/ RespCurrent >= RespTotal)
        /\ Stopped => page = reqs
        /\ ~Stopped => page = reqs + 1

\* C1 witness: a second page was requested and ended the loop although the
\* upstream still reported current 1 < 2 = total for page 1.
C1_Witness ==
    /\ reqs = 2 /\ fstatus = "returned" /\ RespOk /\ RespItems # <<>>
    /\ RespHasTotal /\ RespCurrent >= RespTotal
    /\ Len(acc) = 2

\* C2 (as stated): when the answer to page 1 has no pagination object,
\* exactly one request is issued and the result is exactly the items of that
\* answer.
C2_NoPaginationOneRequestItems ==
    (reqs = 1 /\ RespOk /\ ~RespHasPagination) =>
        (fstatus = "returned" /\ result = RespItems)

\* C2 (amended): when the answer to page 1 has no pagination object, exactly
\* one request is issued and the result is the items of that answer; for
\* get_fields it is the `value` of each of those items.
C2_NoPaginationOneRequest ==
    (reqs = 1 /\ RespOk /\ ~RespHasPagination) =>
        /\ fstatus = "returned"
        /\ result = IF fetcher = "get_fields" THEN ValuesOf(RespItems)
                    ELSE RespItems

\* C2 witness: a first page with items and no pagination object was fetched
\* by get_fields, which has returned.
C2_Witness ==
    /\ reqs = 1 /\ RespOk /\ ~RespHasPagination /\ RespItems # <<>>
    /\ fetcher = "get_fields" /\ fstatus = "returned" /\ Len(result) = 1

\* C3: every upstream failure (transport, non-200, undecodable body) comes
\* out of fetch_api as None, and no error reaches the caller.
C3_EveryFailureIsNoData ==
    (reqs >= 1 /\ RespFailed) => (data = None /\ fstatus # "raised")

\* C4: when the call for page k is not-ok, or its item array is absent or
\* empty, the fetcher returns exactly the items of pages 1..k-1 in order.
C4_FailureReturnsAccumulated ==
    (reqs >= 1 /\ (RespFailed \/ RespItems = <<>>)) =>
        (fstatus = "returned" /\ result = ServedUpTo(reqs - 1))

(***************************************************************************)
(* Claims about the aggregators                                            *)
(***************************************************************************)
\* the positions of the input rows that belong to the group of `key`
GroupOf(key) ==
    {i \in 1..Len(insights) : GroupKey(aggregator, insights[i]) = key}

InputKeys == {GroupKey(aggregator, insights[i]) : i \in 1..Len(insights)}

\* the kind of the value row i has for a field: "num", "str" or "absent"
KindAt(i, field) ==
    IF field \in DOMAIN insights[i] THEN insights[i][field].k ELSE "absent"

\* the integer sum of a field over a set of rows that all hold a number
RECURSIVE SumAt(_, _)
SumAt(I, field) ==
    IF I = {} THEN 0
    ELSE LET i == CHOOSE x \in I : TRUE
         IN  insights[i][field].n + SumAt(I \ {i}, field)

\* the first row of the group of `key`
FirstOf(key) == CHOOSE i \in GroupOf(key) : \A j \in GroupOf(key) : i <= j

\* C5: aggregate_by_account returns one row per distinct Account; in it a
\* field whose values in the group are all numbers is their sum, and a field
\* whose values in the group are all text is the empty string.
C5_SumsNumbersBlanksText ==
    (astatus = "returned" /\ aggregator = "aggregate_by_account") =>
        /\ Len(aresult) = Cardinality(InputKeys)
        /\ \A key \in InputKeys :
              Cardinality({j \in 1..Len(aresult) : aresult[j]["Account"] = key}) = 1
        /\ \A j \in 1..Len(aresult) :
              LET I == GroupOf(aresult[j]["Account"]) IN
              /\ I # {}
              /\ \A f \in {"spend", "Campaign"} :
                    /\ (\A i \in I : KindAt(i, f) = "num")
                          => aresult[j][f] = Num(SumAt(I, f))
                    /\ (\A i \in I : KindAt(i, f) = "str")
                          => aresult[j][f] = Str("")

\* C5 witness: two rows of one account with spend 10 and 20 and Campaign "A"
\* and "B" came back as one row with spend 30 and Campaign "".
C5_Witness ==
    /\ astatus = "returned" /\ aggregator = "aggregate_by_account"
    /\ Len(insights) = 2 /\ Len(aresult) = 1
    /\ insights[1]["Account"] = insights[2]["Account"]
    /\ KindAt(1, "spend") = "num" /\ KindAt(2, "spend") = "num"
    /\ insights[1]["spend"] = Num(10) /\ insights[2]["spend"] = Num(20)
    /\ insights[1]["Campaign"] = Str("A") /\ insights[2]["Campaign"] = Str("B")
    /\ aresult[1]["spend"] = Num(30) /\ aresult[1]["Campaign"] = Str("")

\* C9: aggregation is order-insensitive: on every permutation of the rows
\* the aggregator produces, for each group key, the same field values as on
\* the original order.
C9_OrderInsensitive ==
    astatus = "returned" =>
        \A p \in Permutations(1..Len(insights)) :
            LET permuted == [i \in 1..Len(insights) |-> insights[p[i]]]
                other    == Aggregate(aggregator, EmptyAggregated, permuted, 0,
                                      fields)
                keyField == IF aggregator = "aggregate_by_account"
                            THEN "Account" ELSE "Platform"
            IN  /\ other.status = "returned"
                /\ \A j \in 1..Len(aresult) :
                      \E m \in 1..Len(other.value) :
                          /\ other.value[m][keyField] = aresult[j][keyField]
                          /\ \A f \in {"spend", "Campaign"} :
                                other.value[m][f] = aresult[j][f]

\* C10: a field seeded as text (the group's first row holds no number for
\* it) stays "" whatever later rows of the group hold, and the aggregators
\* complete without error on every input.
C10_TextSeedStaysBlankNoError ==
    /\ astatus # "raised"
    /\ \A j \in 1..Len(aggregated.rows) :
          \A f \in {"spend", "Campaign"} :
              KindAt(FirstOf(aggregated.keys[j]), f) # "num"
                  => aggregated.rows[j][f] = Str("")

(***************************************************************************)
(* Claims about get_all_insights and the routes                            *)
(***************************************************************************)
\* get_all_insights has returned (its caller may have answered since)
AllInsightsReturned ==
    /\ route \in {"/geral", "/geral/resumo"}
    /\ \/ rstatus \in {"ready", "aggregating", "responded"}
       \* geral_summary's aggregation raised after get_all_insights returned
       \/ rstatus = "raised" /\ astatus = "raised"

IsGa4(row) == "Platform" \in DOMAIN row /\ row["Platform"] = Str("ga4")

\* the amount a row gives under a key or its capitalised form: the first of
\* the two that is present and not zero, else 0
Amount(row, lower, upper) ==
    IF lower \in DOMAIN row /\ row[lower] # Num(0) THEN row[lower]
    ELSE IF upper \in DOMAIN row /\ row[upper] # Num(0) THEN row[upper]
    ELSE Num(0)

\* C6 (as stated): no row returned by aggregate_by_platform for the output
\* of get_all_insights has an Account key, and the /geral/resumo CSV header
\* has no Account column.
C6_SummaryOmitsAccount ==
    (route = "/geral/resumo" /\ rstatus = "responded" /\ response.code = 200) =>
        /\ \A j \in 1..Len(response.rows) : "Account" \notin DOMAIN response.rows[j]
        /\ \A i \in 1..Len(response.csv.header) : response.csv.header[i] # "Account"

\* C6 (amended): every row returned by aggregate_by_platform for the output
\* of get_all_insights has an Account key, blank ("") for text account
\* names, and the /geral/resumo CSV header has Account as its second
\* column, whose cells are empty.
C6_SummaryKeepsBlankAccount ==
    (route = "/geral/resumo" /\ rstatus = "responded" /\ response.code = 200) =>
        /\ \A j \in 1..Len(response.rows) :
              /\ "Account" \in DOMAIN response.rows[j]
              /\ response.rows[j]["Account"] = Str("")
        /\ response.csv.header[1] = "Platform"
        /\ response.csv.header[2] = "Account"
        /\ Len(response.csv.lines) = Len(response.rows)
        /\ \A j \in 1..Len(response.csv.lines) : response.csv.lines[j][2] = Str("")

\* C6 witness: /geral/resumo answered a CSV of two platform rows built from
\* input rows that carry an account name.
C6_Witness ==
    /\ route = "/geral/resumo" /\ rstatus = "responded" /\ response.code = 200
    /\ Len(response.rows) = 2
    /\ \A i \in 1..Len(insights_all) :
          "Account" \in DOMAIN insights_all[i] /\ insights_all[i]["Account"] # Str("")

NamesPlatform == \E i \in 1..Len(response.body) : response.body[i] = platform

\* the handler has fetched its row list and has answered: it returned a
\* response, or aggregating the fetched rows raised and the framework
\* answered for it
AnsweredWithRows ==
    rstatus = "responded" \/ (rstatus = "raised" /\ astatus = "raised")

\* C8: each report route answers 404 exactly when its fetched row list is
\* empty and a CSV otherwise; on the two per-platform routes the 404 body
\* contains the platform name; GET / never answers 404.
C8_NotFoundIffNoRowsElseCsv ==
    /\ (route = "/" /\ rstatus = "responded") => response.code # 404
    /\ (route \in Routes \ {"/"} /\ AnsweredWithRows) =>
          /\ response.code = 404 <=> insights_all = <<>>
          /\ response.code # 404 =>
                (response.code = 200 /\ response.mimetype = "text/csv")
          /\ (response.code = 404 /\ route \in {"/<platform>", "/<platform>/resumo"})
                => NamesPlatform

====
